---- MODULE Spec2Model ----
(***************************************************************************)
(* Model of the incident-report formatter of the my-ip backend             *)
(* (src/unnamed/part_002): the field/section registry, the pattern         *)
(* waterfall of extractFieldValue, the two free-text section extractors,   *)
(* applyFieldFilters, and the three /api/format-report handlers.           *)
(*                                                                         *)
(* Texts are TLA+ strings; a JavaScript object is a sequence of            *)
(* [k |-> key, v |-> value] entries in insertion order (the order          *)
(* Object.entries yields for non-numeric keys).                            *)
(***************************************************************************)
EXTENDS Integers, Sequences, FiniteSets, TLC

VARIABLES FIELD_CONFIG, SECTION_CONFIG, request, response, lastFormat, nUpdates

vars == <<FIELD_CONFIG, SECTION_CONFIG, request, response, lastFormat, nUpdates>>

(***************************************************************************)
(* Characters and strings                                                  *)
(***************************************************************************)
UpperLetters == "ABCDEFGHIJKLMNOPQRSTUVWXYZ"

LowerLetters == "abcdefghijklmnopqrstuvwxyz"

CharAt(s, p) == SubSeq(s, p, p)

LowerOf == [i \in 1..Len(UpperLetters) |-> CharAt(LowerLetters, i)]

UpperSet == {CharAt(UpperLetters, i) : i \in 1..Len(UpperLetters)}

LowerSet == {CharAt(LowerLetters, i) : i \in 1..Len(LowerLetters)}

UpperIndex == [c \in UpperSet |-> CHOOSE i \in 1..Len(UpperLetters) : CharAt(UpperLetters, i) = c]

\* String.prototype.toLowerCase on one character
toLowerChar(c) == IF c \in UpperSet THEN LowerOf[UpperIndex[c]] ELSE c

RECURSIVE toLowerCase(_)
\* String.prototype.toLowerCase
toLowerCase(s) ==
    IF s = "" THEN ""
    ELSE toLowerChar(CharAt(s, 1)) \o toLowerCase(SubSeq(s, 2, Len(s)))

WhiteSpace == {" ", "\t", "\n"}

IsLetter(c) == c \in UpperSet \/ c \in LowerSet

RECURSIVE trimStart(_)
trimStart(s) ==
    IF s # "" /\ CharAt(s, 1) \in WhiteSpace THEN trimStart(SubSeq(s, 2, Len(s))) ELSE s

RECURSIVE trimEnd(_)
\* String.prototype.trimEnd
trimEnd(s) ==
    IF s # "" /\ CharAt(s, Len(s)) \in WhiteSpace THEN trimEnd(SubSeq(s, 1, Len(s) - 1)) ELSE s

\* String.prototype.trim
trim(s) == trimEnd(trimStart(s))

\* the least of a non-empty set of integers
Least(S) == CHOOSE x \in S : \A y \in S : x <= y

\* String.prototype.indexOf(sub, p - 1) + 1: the first place from p on, 0 for none
IndexOfFrom(s, sub, p) ==
    IF \E q \in p..(Len(s) - Len(sub) + 1) : SubSeq(s, q, q + Len(sub) - 1) = sub
    THEN Least({q \in p..(Len(s) - Len(sub) + 1) : SubSeq(s, q, q + Len(sub) - 1) = sub})
    ELSE 0

\* String.prototype.includes
includes(s, sub) == IndexOfFrom(s, sub, 1) # 0

(***************************************************************************)
(* Regular expressions: a pattern is a sequence of nodes, matched with     *)
(* the priorities of ECMAScript's backtracking matcher (greedy quantifiers *)
(* longest first, lazy ones shortest first, alternatives left to right,    *)
(* the leftmost start position wins).                                      *)
(***************************************************************************)
Lit(c) == [t |-> "lit", c |-> c]

Cls(n) == [t |-> "cls", c |-> n]

\* quantifier on a one-character atom; max = -1 is unbounded
Rep(atom, min, max, lazy) == [t |-> "rep", r |-> atom, min |-> min, max |-> max, lazy |-> lazy]

Alt(branches) == [t |-> "alt", a |-> branches]

Look(nodes) == [t |-> "look", r |-> nodes]

Bol == [t |-> "bol"]

Eol(multiline) == [t |-> "eol", m |-> multiline]

Open == [t |-> "open"]

Close == [t |-> "close"]

\* the literal text of a string
Text(str) == <<[t |-> "text", c |-> str]>>

InClass(n, c) ==
    CASE n = "s" -> c \in WhiteSpace                      \* \s
      [] n = "notTabNl" -> c \notin {"\t", "\n"}          \* [^\t\n]
      [] n = "alphaS" -> IsLetter(c) \/ c \in WhiteSpace  \* [A-Za-z\s]
      [] n = "notNlStar" -> c \notin {"\n", "*"}          \* [^\n*]
      [] n = "dot" -> c # "\n"                            \* .
      [] n = "any" -> TRUE                                \* [\s\S]
      [] n = "alphaSp" -> IsLetter(c) \/ c = " "          \* [A-Za-z ]
      [] n = "notStar" -> c # "*"                         \* [^*]

Accepts(n, c, ci) ==
    IF n.t = "lit"
    THEN IF ci THEN toLowerChar(c) = toLowerChar(n.c) ELSE c = n.c
    ELSE InClass(n.c, c)

\* how many characters from p on the atom accepts in a row, at most max
RunLen(atom, s, p, ci, max) ==
    LET limit == IF max < 0 \/ p + max - 1 > Len(s) THEN Len(s) ELSE p + max - 1
    IN IF \E q \in p..limit : ~Accepts(atom, CharAt(s, q), ci)
       THEN (CHOOSE q \in p..limit :
                /\ ~Accepts(atom, CharAt(s, q), ci)
                /\ \A r \in p..(q - 1) : Accepts(atom, CharAt(s, r), ci)) - p
       ELSE limit - p + 1

\* the literal text stands at p
TextAt(s, p, str, ci) ==
    /\ p + Len(str) - 1 <= Len(s)
    /\ \A i \in 1..Len(str) :
          IF ci THEN toLowerChar(CharAt(s, p + i - 1)) = toLowerChar(CharAt(str, i))
          ELSE CharAt(s, p + i - 1) = CharAt(str, i)

NoMatch == [ok |-> FALSE, e |-> 0, cs |-> 0, ce |-> 0]

RECURSIVE Run(_, _, _, _, _)
RECURSIVE TryAlt(_, _, _, _, _, _, _)

\* the rest of the pattern after the quantifier has taken j characters, for
\* every j between the two bounds
Continuations(rest, s, p, cap, ci, from, to) ==
    {[j |-> j, r |-> Run(rest, s, p + j, cap, ci)] : j \in from..to}

\* the first continuation that matches in the order the quantifier tries them:
\* the shortest first when lazy, the longest first when greedy
FirstOf(found, lazy) ==
    IF found = {} THEN NoMatch
    ELSE (CHOOSE x \in found :
             \A y \in found : IF lazy THEN x.j <= y.j ELSE x.j >= y.j).r

\* a quantifier that can take k characters at p
TryRep(n, rest, s, p, cap, ci, k) ==
    IF k < n.min THEN NoMatch
    ELSE FirstOf({x \in Continuations(rest, s, p, cap, ci, n.min, k) : x.r.ok}, n.lazy)

\* the first alternative, from the i-th on, that the rest of the pattern follows
FirstBranch(r, branches, i, rest, s, p, cap, ci) ==
    IF r.ok THEN r ELSE TryAlt(branches, i + 1, rest, s, p, cap, ci)

TryAlt(branches, i, rest, s, p, cap, ci) ==
    IF i > Len(branches) THEN NoMatch
    ELSE FirstBranch(Run(branches[i] \o rest, s, p, cap, ci), branches, i, rest, s, p, cap, ci)

\* match the nodes at position p; cap is <<start, end>> of capture group 1
Run(nodes, s, p, cap, ci) ==
    IF nodes = <<>> THEN [ok |-> TRUE, e |-> p, cs |-> cap[1], ce |-> cap[2]]
    ELSE LET n == Head(nodes)
             rest == Tail(nodes)
         IN CASE n.t \in {"lit", "cls"} ->
                   IF p <= Len(s) /\ Accepts(n, CharAt(s, p), ci)
                   THEN Run(rest, s, p + 1, cap, ci) ELSE NoMatch
              [] n.t = "text" ->
                   IF TextAt(s, p, n.c, ci)
                   THEN Run(rest, s, p + Len(n.c), cap, ci) ELSE NoMatch
              [] n.t = "rep" -> TryRep(n, rest, s, p, cap, ci, RunLen(n.r, s, p, ci, n.max))
              [] n.t = "alt" -> TryAlt(n.a, 1, rest, s, p, cap, ci)
              [] n.t = "look" ->
                   IF Run(n.r, s, p, cap, ci).ok THEN Run(rest, s, p, cap, ci) ELSE NoMatch
              [] n.t = "bol" ->
                   IF p = 1 \/ CharAt(s, p - 1) = "\n" THEN Run(rest, s, p, cap, ci) ELSE NoMatch
              [] n.t = "eol" ->
                   IF p = Len(s) + 1 \/ (n.m /\ CharAt(s, p) = "\n")
                   THEN Run(rest, s, p, cap, ci) ELSE NoMatch
              [] n.t = "open" -> Run(rest, s, p, <<p, cap[2]>>, ci)
              [] n.t = "close" -> Run(rest, s, p, <<cap[1], p>>, ci)

\* the match that starts at q
MatchAt(s, q, r) ==
    [ok |-> TRUE, index |-> q, end |-> r.e, g1 |-> SubSeq(s, r.cs, r.ce - 1)]

\* the places from p on where the pattern matches
MatchStarts(nodes, s, p, ci) == {q \in p..(Len(s) + 1) : Run(nodes, s, q, <<0, 0>>, ci).ok}

Leftmost(nodes, s, ci, start) == MatchAt(s, start, Run(nodes, s, start, <<0, 0>>, ci))

LeftmostOf(nodes, s, ci, starts) ==
    IF starts = {} THEN [ok |-> FALSE, index |-> 0, end |-> 0, g1 |-> ""]
    ELSE Leftmost(nodes, s, ci, Least(starts))

\* the leftmost match that starts at p or later
SearchFrom(nodes, s, p, ci) == LeftmostOf(nodes, s, ci, MatchStarts(nodes, s, p, ci))

\* String.prototype.match with a non-global RegExp: the leftmost match
\* (index is 1-based), g1 the text of capture group 1
match(s, nodes, ci) == SearchFrom(nodes, s, 1, ci)

RECURSIVE replaceAllFrom(_, _, _, _)
RECURSIVE spliceAll(_, _, _, _, _)
\* the text from p on with the match m, and every later one, replaced
spliceAll(s, nodes, with, p, m) ==
    IF ~m.ok THEN SubSeq(s, p, Len(s))
    ELSE SubSeq(s, p, m.index - 1) \o with \o replaceAllFrom(s, nodes, with, m.end)

\* String.prototype.replace with a global RegExp that never matches empty, from
\* p on (from 1: the whole text)
replaceAllFrom(s, nodes, with, p) == spliceAll(s, nodes, with, p, SearchFrom(nodes, s, p, FALSE))

splice(s, m, with) ==
    IF ~m.ok THEN s ELSE SubSeq(s, 1, m.index - 1) \o with \o SubSeq(s, m.end, Len(s))

\* String.prototype.replace with a non-global RegExp or a string
replaceFirst(s, nodes, with) == splice(s, match(s, nodes, FALSE), with)

WS0 == Rep(Cls("s"), 0, -1, FALSE)

OptStar == Rep(Lit("*"), 0, 1, FALSE)

(***************************************************************************)
(* extractFieldValue: the eight patterns built around one keyword          *)
(***************************************************************************)
tabularPattern(keyword) ==
    Text(keyword) \o <<WS0, Lit(":"), WS0, Open, Rep(Cls("notTabNl"), 1, -1, TRUE), Close,
      Look(<<Alt(<< <<WS0, Lit("\t"), Rep(Cls("alphaS"), 1, -1, FALSE), WS0, Lit(":")>>,
                    <<WS0, Eol(FALSE)>> >>)>>)>>

sameLineNoClosing(keyword) ==
    Text("**") \o Text(keyword) \o
    <<WS0, Lit(":"), Lit("*"), OptStar, WS0, Open, Rep(Cls("notNlStar"), 1, -1, FALSE), Close>>

nextLineNoClosing(keyword) ==
    Text("**") \o Text(keyword) \o
    <<WS0, Lit(":"), Lit("*"), OptStar, WS0, Lit("\n"), WS0,
      Open, Rep(Cls("notNlStar"), 1, -1, FALSE), Close>>

boldPattern(keyword) ==
    Text("**") \o Text(keyword) \o
    <<WS0, Lit(":"), WS0, Lit("*"), Lit("*"), WS0, Open, Rep(Cls("notNlStar"), 1, -1, FALSE), Close>>

nextLinePattern(keyword) ==
    Text("**") \o Text(keyword) \o
    <<WS0, Lit(":"), Lit("*"), Lit("*"), WS0, Lit("\n"), WS0,
      Open, Rep(Cls("notNlStar"), 1, -1, FALSE), Close>>

simpleLinePattern(keyword) ==
    <<Bol, WS0>> \o Text(keyword) \o
    <<WS0, Lit(":"), WS0, Open, Rep(Cls("dot"), 1, -1, TRUE), Close, WS0, Eol(TRUE)>>

simplePattern(keyword) ==
    Text(keyword) \o <<WS0, Lit(":"), Open, Rep(Cls("dot"), 0, -1, FALSE), Close, Eol(TRUE)>>

genericPattern ==
    <<Open, Rep(Cls("dot"), 0, -1, TRUE), Close,
      Alt(<< <<Rep(Cls("s"), 1, -1, FALSE), Rep(Cls("alphaSp"), 1, -1, FALSE), WS0, Lit(":")>>, <<Eol(FALSE)>> >>)>>

multiLinePattern(keyword) ==
    Text("**") \o Text(keyword) \o
    <<WS0, Lit(":"), Lit("*"), OptStar, WS0, Lit("\n"),
      Open, Rep(Cls("any"), 0, -1, TRUE), Close,
      Look(<<Alt(<< Text("**") \o <<Rep(Cls("notStar"), 1, -1, FALSE), Lit(":"), Lit("*"), OptStar>>,
                    <<Eol(FALSE)>> >>)>>)>>

\* /\n\s*\n/g
blankLines == <<Lit("\n"), WS0, Lit("\n")>>

\* null, and a value that is not null
Null == [null |-> TRUE]

Some(v) == [null |-> FALSE, v |-> v]

\* what null || value is: the first of the two that is not null
orElse(first, second) == IF first # Null THEN first ELSE second

\* if (match && match[1].trim()) return match[1].trim()
trimmedCapture(m) == IF m.ok /\ trim(m.g1) # "" THEN Some(trim(m.g1)) ELSE Null

\* pattern 7: the value up to the next `Label :` of the line
genericValue(valueMatch) ==
    IF valueMatch.ok /\ valueMatch.g1 # "" THEN Some(trim(valueMatch.g1)) ELSE Null

genericCapture(m) ==
    IF m.ok /\ m.g1 # "" THEN genericValue(match(m.g1, genericPattern, FALSE)) ELSE Null

\* pattern 8: the captured lines without the blank ones
multiLineCapture(m) ==
    IF m.ok /\ trim(m.g1) # "" THEN Some(replaceAllFrom(trim(m.g1), blankLines, "\n", 1)) ELSE Null

\* the body of the keyword loop: Some(returned string), or Null when the loop
\* goes on to the next keyword
extractWithKeyword(text, keyword) ==
    orElse(trimmedCapture(match(text, tabularPattern(keyword), TRUE)),
    orElse(trimmedCapture(match(text, sameLineNoClosing(keyword), TRUE)),
    orElse(trimmedCapture(match(text, nextLineNoClosing(keyword), TRUE)),
    orElse(trimmedCapture(match(text, boldPattern(keyword), TRUE)),
    orElse(trimmedCapture(match(text, nextLinePattern(keyword), TRUE)),
    orElse(trimmedCapture(match(text, simpleLinePattern(keyword), FALSE)),
    orElse(genericCapture(match(text, simplePattern(keyword), FALSE)),
           multiLineCapture(match(text, multiLinePattern(keyword), TRUE)))))))))

RECURSIVE extractFromKeywords(_, _, _)
extractFromKeywords(text, keywords, i) ==
    IF i > Len(keywords) THEN Null
    ELSE orElse(extractWithKeyword(text, keywords[i]),
                extractFromKeywords(text, keywords, i + 1))

(***************************************************************************)
(* Free-text sections                                                      *)
(***************************************************************************)
incidentPatternBold ==
    Text("**Incident Information**") \o
    <<WS0, Open, Rep(Cls("any"), 0, -1, TRUE), Close, WS0,
      Alt(<<Text("**Event Time**"), Text("**Action & Recommendation**"), <<Eol(FALSE)>> >>)>>

incidentPatternPlain ==
    Text("Incident Information") \o
    <<WS0, Open, Rep(Cls("any"), 0, -1, TRUE), Close, WS0,
      Alt(<<Text("Event Time"), Text("Action & Recommendation"), <<Eol(FALSE)>> >>)>>

\* /\*\*Incident Detail[^*]*\*\*/
incidentDetailBold ==
    Text("**Incident Detail") \o <<Rep(Cls("notStar"), 0, -1, FALSE), Lit("*"), Lit("*")>>

incidentContent(captured) ==
    trim(replaceFirst(trim(replaceFirst(captured, incidentDetailBold, "")),
                      Text("Incident Detail:"), ""))

\* if (content) return content
nonEmpty(content) == IF content # "" THEN Some(content) ELSE Null

incidentCapture(m) ==
    IF m.ok /\ trim(m.g1) # "" THEN nonEmpty(incidentContent(m.g1)) ELSE Null

\* the body of extractIncidentInformation
computeIncidentInformation(text) ==
    orElse(incidentCapture(match(text, incidentPatternBold, FALSE)),
           incidentCapture(match(text, incidentPatternPlain, FALSE)))

actionPatternBold ==
    Text("**Action & Recommendation**") \o <<WS0, Open, Rep(Cls("any"), 0, -1, FALSE), Close>>

actionPatternPlain ==
    Text("Action & Recommendation") \o <<WS0, Open, Rep(Cls("any"), 0, -1, FALSE), Close>>

\* the body of extractActionRecommendation
computeActionRecommendation(text) ==
    orElse(multiLineCapture(match(text, actionPatternBold, FALSE)),
           multiLineCapture(match(text, actionPatternPlain, FALSE)))

(***************************************************************************)
(* JavaScript objects as entry sequences                                   *)
(***************************************************************************)
Entry(k, v) == [k |-> k, v |-> v]

Keys(obj) == [i \in 1..Len(obj) |-> obj[i].k]

KeySet(obj) == {obj[i].k : i \in 1..Len(obj)}

HasKey(obj, k) == k \in KeySet(obj)

\* obj[k] for a key the object has
Get(obj, k) == obj[CHOOSE i \in 1..Len(obj) : obj[i].k = k].v

\* target[k] = v: an existing key keeps its place, a new key goes last
Put(obj, k, v) ==
    IF HasKey(obj, k)
    THEN [i \in 1..Len(obj) |-> IF obj[i].k = k THEN Entry(k, v) ELSE obj[i]]
    ELSE Append(obj, Entry(k, v))

RECURSIVE AssignFrom(_, _, _)
AssignFrom(target, source, i) ==
    IF i > Len(source) THEN target
    ELSE AssignFrom(Put(target, source[i].k, source[i].v), source, i + 1)

\* Object.assign(target, source), and { ...target, ...source }
ObjectAssign(target, source) == AssignFrom(target, source, 1)

\* a property that is present
Has(rec, name) == name \in DOMAIN rec

(***************************************************************************)
(* The registry as the module creates it                                   *)
(***************************************************************************)
FieldDef(keywords, outputLabel, enabled, priority) ==
    [keywords |-> keywords, section |-> "general", outputLabel |-> outputLabel,
     enabled |-> enabled, priority |-> priority]

InitialFieldConfig ==
    << Entry("category", FieldDef(<<"Category", "Categories">>, "Category", TRUE, 1)),
       Entry("subCategories",
             FieldDef(<<"Sub Categories", "Sub Category", "Sub Categor",
                        "Sub Categories:", "Sub Category:">>, "Sub Categories", TRUE, 2)),
       Entry("deviceAction", FieldDef(<<"Device Action">>, "Device Action", TRUE, 3)),
       Entry("signature",
             FieldDef(<<"Signature", "Signatures", "Signature Alert">>, "Signature", TRUE, 3)),
       Entry("eventClassID",
             FieldDef(<<"Device Event Class ID", "Event Class ID">>, "Event Class ID", TRUE, 4)),
       Entry("severity", FieldDef(<<"Severity">>, "Severity", FALSE, 4)),
       Entry("dateOfIssue", FieldDef(<<"Date of Issue">>, "Date of Issue", FALSE, 5)),
       Entry("startTime", FieldDef(<<"Start Time">>, "Start Time", FALSE, 6)),
       Entry("endTime", FieldDef(<<"End Time">>, "End Time", FALSE, 7)),
       Entry("destinationPort",
             FieldDef(<<"Destination Port">>, "Destination Port", FALSE, 8)) >>

InitialSectionConfig ==
    << Entry("general", [enabled |-> TRUE, label |-> "Incident General Information"]),
       Entry("incidentInfo", [enabled |-> TRUE, label |-> "Incident Information"]),
       Entry("actionRecommendation", [enabled |-> TRUE, label |-> "Action & Recommendation"]) >>

(***************************************************************************)
(* The requests the model sends                                            *)
(***************************************************************************)
EmptyObject == [x \in {} |-> x]

\* a JSON value whose type the handler tests, v its JSON text
Str(v) == [type |-> "string", v |-> v]

Num(v) == [type |-> "number", v |-> v]

\* reports written as one line after the other
Lines ==
    { "Category : Malware",
      "Sub Category : Phishing",
      "Graph Signature : G1",
      "  additional detail",
      "Device Action : Drop",
      "**Signature :** Trojan" }

\* how many lines a composed report has at most
MaxLines == 2

RECURSIVE Join(_)
Join(ls) == IF Len(ls) = 1 THEN ls[1] ELSE ls[1] \o "\n" \o Join(Tail(ls))

ComposedTexts == {Join(ls) : ls \in UNION {[1..n -> Lines] : n \in 1..MaxLines}}

\* a report with a field the registry disables and one it does not define
OwnedReport == "Device Action : Drop\nSeverity : High\nCategory : Malware\nOwner : SOC\nseen twice"

ServerTexts ==
    { "Category : Malware\nSub Category: Phishing\n\nAction & Recommendation\nBlock sender\n\nBlock domain",
      OwnedReport,
      "**Incident Information**\n**Incident Detail:**\nport scan\n**Action & Recommendation**\nBlock sender",
      "no fields here" }

\* reports with a label that has no value, alternative keywords, and fields
\* written in another order than the report lists them
EdgeTexts ==
    { "Category : Malware\nDevice Action : \t",
      "Categories : X\nCategory : \t",
      "**Signature :** Trojan\nSeverity : High\nCategory : Malware\n**Incident Information**\nport scan\n**Action & Recommendation**\nBlock sender" }

\* the texts of the model: the reports it sends, and two of them with a label in
\* small letters
RawTexts ==
    ComposedTexts \cup ServerTexts \cup EdgeTexts
    \cup {"category : Malware", "category : Malware\nDevice Action : Drop"}

OwnerField ==
    [keywords |-> <<"Owner">>, section |-> "general", outputLabel |-> "Owner", priority |-> 2]

CustomFieldSets == { <<Entry("owner", OwnerField)>> }

\* a definition submitted without its keyword list
MalformedFields == <<Entry("reporter", [section |-> "general", outputLabel |-> "Reporter"])>>

CapAfterDeny == [disabled |-> <<"category">>, maxFields |-> 1]

FormatBodies ==
    {[rawText |-> Str(t)] : t \in ServerTexts}
    \cup {[rawText |-> Str(t), fieldFilters |-> f] :
            t \in ServerTexts,
            f \in {[maxFields |-> 0], [maxFields |-> 1], [includeOnly |-> <<"MAL">>],
                   CapAfterDeny}}
    \cup {[rawText |-> Str(t), customFields |-> c] : t \in ServerTexts, c \in CustomFieldSets}
    \cup {[rawText |-> Str(t), customFields |-> c, fieldFilters |-> CapAfterDeny] :
            t \in ServerTexts, c \in CustomFieldSets}
    \cup {[rawText |-> Str(t), sections |-> <<Entry("incidentInfo", [enabled |-> FALSE])>>] :
            t \in ServerTexts}
    \cup {[rawText |-> Str(t)] : t \in EdgeTexts}
    \cup {[rawText |-> Str("Category : Malware\nDevice Action : \t"),
             customFields |-> MalformedFields],
            [rawText |-> Str(OwnedReport),
             fieldFilters |-> [enabled |-> <<"severity", "category">>]],
            [rawText |-> Str(OwnedReport),
             customFields |-> <<Entry("owner", [keywords |-> <<"Owner">>,
                                                section |-> "incidentInfo",
                                                outputLabel |-> "Owner"])>>]}
    \cup {EmptyObject, [rawText |-> Str("")], [rawText |-> Num("42")]}

\* what extraction can have found, in the order of the registry
FieldPool ==
    << Entry("category", [label |-> "Category", value |-> "Malware"]),
       Entry("subCategories", [label |-> "Sub Categories", value |-> "Phishing"]),
       Entry("deviceAction", [label |-> "Device Action", value |-> "Drop"]),
       Entry("owner", [label |-> "Owner", value |-> "mal team"]) >>

FieldMaps == {SelectSeq(FieldPool, LAMBDA e : e.k \in K) : K \in SUBSET KeySet(FieldPool)}

\* the largest cap the filter harness asks for
MaxCap == 2

HarnessFilters ==
    { a @@ b @@ c @@ d :
        a \in {EmptyObject, [enabled |-> <<"owner", "category", "deviceAction">>],
               [enabled |-> <<>>]},
        b \in {EmptyObject, [disabled |-> <<"category">>]},
        c \in {EmptyObject, [includeOnly |-> <<"MAL">>], [includeOnly |-> <<"drop", "ISH">>],
               [includeOnly |-> <<>>]},
        d \in {EmptyObject} \cup {[maxFields |-> n] : n \in 0..MaxCap} }

FieldUpdates ==
    { <<Entry("severity",
              [keywords |-> <<"Severity">>, section |-> "general", outputLabel |-> "Severity"])>>,
      <<Entry("deviceAction", FieldDef(<<"Device Action">>, "Device Action", TRUE, 0)),
        Entry("owner", OwnerField)>> }

SectionUpdates ==
    { <<Entry("general", [enabled |-> FALSE])>>,
      <<Entry("actionRecommendation", [enabled |-> TRUE, label |-> "Next Steps"])>> }

UpdateBodies ==
    {[fieldConfig |-> u] : u \in FieldUpdates}
    \cup {[sectionConfig |-> u] : u \in SectionUpdates}
    \cup {[fieldConfig |-> <<Entry("category", FieldDef(<<"Category">>, "Kind", FALSE, 1))>>,
            sectionConfig |-> <<Entry("incidentInfo", [enabled |-> FALSE, label |-> "Details"])>>]}
    \cup {[fieldConfig |-> MalformedFields]}
    \cup {EmptyObject}

(***************************************************************************)
(* The values of the text functions on the texts the model sends, computed *)
(* once: each table entry is the function's value, and a text outside the  *)
(* table is computed on the spot.                                          *)
(***************************************************************************)
\* /\n\s*(Graph|Additional detail)/i
cutoffRegex == <<Lit("\n"), WS0, Alt(<<Text("Graph"), Text("Additional detail")>>)>>

\* cutoffMatch ? rawText.substring(0, cutoffMatch.index) : rawText
cutAt(rawText, cutoffMatch) ==
    IF cutoffMatch.ok THEN SubSeq(rawText, 1, cutoffMatch.index - 1) ELSE rawText

cutoff(rawText) == cutAt(rawText, match(rawText, cutoffRegex, TRUE))

cutoffTable == [t \in RawTexts |-> cutoff(t)]

textToParse(rawText) ==
    IF rawText \in RawTexts THEN cutoffTable[rawText] ELSE cutoff(rawText)

ParsedTexts == {cutoffTable[t] : t \in RawTexts}

KeywordLists ==
    {InitialFieldConfig[i].v.keywords : i \in 1..Len(InitialFieldConfig)}
    \cup {c[i].v.keywords : c \in {x \in CustomFieldSets \cup FieldUpdates : Len(x) >= 1}, i \in {1}}
    \cup {c[i].v.keywords : c \in {x \in CustomFieldSets \cup FieldUpdates : Len(x) >= 2}, i \in {2}}

fieldValueTable ==
    [t \in ParsedTexts |-> [ks \in KeywordLists |-> extractFromKeywords(t, ks, 1)]]

\* extractFieldValue(text, fieldConfig): Some(string), possibly the empty one, or Null
extractFieldValue(text, fieldConfig) ==
    IF text \in ParsedTexts /\ fieldConfig.keywords \in KeywordLists
    THEN fieldValueTable[text][fieldConfig.keywords]
    ELSE extractFromKeywords(text, fieldConfig.keywords, 1)

incidentTable == [t \in ParsedTexts |-> computeIncidentInformation(t)]

\* extractIncidentInformation(text): Some(non-empty string), or Null
extractIncidentInformation(text) ==
    IF text \in ParsedTexts THEN incidentTable[text] ELSE computeIncidentInformation(text)

actionTable == [t \in ParsedTexts |-> computeActionRecommendation(t)]

\* extractActionRecommendation(text): Some(non-empty string), or Null
extractActionRecommendation(text) ==
    IF text \in ParsedTexts THEN actionTable[text] ELSE computeActionRecommendation(text)

(***************************************************************************)
(* applyFieldFilters                                                       *)
(***************************************************************************)
InSeq(x, seq) == \E i \in 1..Len(seq) : seq[i] = x

\* the priority the cap sorts by: FIELD_CONFIG[key]?.priority || 999
DefaultPriority == 999

sortPriority(key) ==
    IF HasKey(FIELD_CONFIG, key) /\ Has(Get(FIELD_CONFIG, key), "priority")
       /\ Get(FIELD_CONFIG, key).priority # 0
    THEN Get(FIELD_CONFIG, key).priority
    ELSE DefaultPriority

\* x goes after every element that does not sort after it (a stable sort)
RECURSIVE InsertByPriority(_, _)
InsertByPriority(sorted, x) ==
    IF sorted = <<>> THEN <<x>>
    ELSE IF sortPriority(Head(sorted).k) - sortPriority(x.k) > 0 THEN <<x>> \o sorted
    ELSE <<Head(sorted)>> \o InsertByPriority(Tail(sorted), x)

RECURSIVE SortByPriority(_, _)
SortByPriority(entries, i) ==
    IF i = 0 THEN <<>> ELSE InsertByPriority(SortByPriority(entries, i - 1), entries[i])

\* Array.prototype.slice(0, n)
sliceTo(seq, n) ==
    IF n >= 0 THEN SubSeq(seq, 1, IF n < Len(seq) THEN n ELSE Len(seq))
    ELSE SubSeq(seq, 1, Len(seq) + n)

allowList(fields, filters) ==
    IF Has(filters, "enabled")
    THEN LET Keep(e) == InSeq(e.k, filters.enabled) IN SelectSeq(fields, Keep)
    ELSE fields

denyList(fields, filters) ==
    IF Has(filters, "disabled")
    THEN LET Keep(e) == ~InSeq(e.k, filters.disabled) IN SelectSeq(fields, Keep)
    ELSE fields

\* a search that compares the letters as they are written
keywordHitExact(field, keyword) ==
    \/ includes(field.label, keyword)
    \/ includes(field.value, keyword)

keywordHit(field, keyword) ==
    \/ includes(toLowerCase(field.label), toLowerCase(keyword))
    \/ includes(toLowerCase(field.value), toLowerCase(keyword))

keywordSearch(fields, filters) ==
    IF Has(filters, "includeOnly")
    THEN LET Keep(e) == \E i \in 1..Len(filters.includeOnly) :
                            keywordHit(e.v, filters.includeOnly[i])
         IN SelectSeq(fields, Keep)
    ELSE fields

maxCount(fields, filters) ==
    IF Has(filters, "maxFields") /\ filters.maxFields # 0
    THEN sliceTo(SortByPriority(fields, Len(fields)), filters.maxFields)
    ELSE fields

\* the four stages with the cap moved in front of the keyword search
applyFieldFiltersCapFirst(extractedFields, filters) ==
    keywordSearch(maxCount(denyList(allowList(extractedFields, filters), filters), filters),
                  filters)

applyFieldFilters(extractedFields, filters) ==
    maxCount(keywordSearch(denyList(allowList(extractedFields, filters), filters), filters),
             filters)

\* field.label.toLowerCase() on a field the handler stored without a label
filterThrows(extractedFields, filters) ==
    /\ Has(filters, "includeOnly")
    /\ filters.includeOnly # <<>>
    /\ \E i \in 1..Len(extractedFields) :
          /\ ~Has(extractedFields[i].v, "label")
          /\ denyList(allowList(<<extractedFields[i]>>, filters), filters) # <<>>

(***************************************************************************)
(* POST /api/format-report                                                 *)
(***************************************************************************)
\* the falsy test without the typeof test
badRawTextFalsyOnly(body) ==
    \/ ~Has(body, "rawText")
    \/ body.rawText.v = ""

\* !rawText || typeof rawText !== 'string'
badRawText(body) ==
    \/ ~Has(body, "rawText")
    \/ body.rawText.type # "string"
    \/ body.rawText.v = ""

\* customFields ? { ...FIELD_CONFIG, ...customFields } : FIELD_CONFIG
mergedFieldConfig(body) ==
    IF Has(body, "customFields") THEN ObjectAssign(FIELD_CONFIG, body.customFields)
    ELSE FIELD_CONFIG

\* { ...SECTION_CONFIG, ...sections }
mergedSectionConfig(body) ==
    IF Has(body, "sections") THEN ObjectAssign(SECTION_CONFIG, body.sections)
    ELSE SECTION_CONFIG

\* a test that would look at the section tag alone
isExtractedInGeneral(config) == Has(config, "section") /\ config.section = "general"

\* config.section === 'general' && config.enabled !== false
isExtracted(config) ==
    /\ Has(config, "section") /\ config.section = "general"
    /\ ~(Has(config, "enabled") /\ config.enabled = FALSE)

\* { label: config.outputLabel, value: value }
extractedField(config, value) ==
    IF Has(config, "outputLabel") THEN [label |-> config.outputLabel, value |-> value]
    ELSE [value |-> value]

\* a loop that would store every string the extraction returns
foundEntryAnyString(fieldKey, config, value) ==
    IF isExtracted(config) /\ value # Null
    THEN <<Entry(fieldKey, extractedField(config, value.v))>>
    ELSE <<>>

\* one turn of the loop: the entry it stores, if it stores one
foundEntry(fieldKey, config, value) ==
    IF isExtracted(config) /\ value # Null /\ value.v # ""
    THEN <<Entry(fieldKey, extractedField(config, value.v))>>
    ELSE <<>>

RECURSIVE extractGeneral(_, _, _)
\* the loop over Object.entries(fieldConfig) that fills extractedFields
extractGeneral(text, fieldConfig, i) ==
    IF i > Len(fieldConfig) THEN <<>>
    ELSE foundEntry(fieldConfig[i].k, fieldConfig[i].v,
                    extractFieldValue(text, fieldConfig[i].v))
         \o extractGeneral(text, fieldConfig, i + 1)

\* a rendering order with severity before the device action
fieldOrderSeverityFirst ==
    <<"category", "subCategories", "severity", "deviceAction", "dateOfIssue",
      "startTime", "endTime", "destinationPort">>

fieldOrder ==
    <<"category", "subCategories", "deviceAction", "severity", "dateOfIssue",
      "startTime", "endTime", "destinationPort">>

\* `${field.label} : ${field.value}\n`
fieldLine(field) ==
    (IF Has(field, "label") THEN field.label ELSE "undefined") \o " : " \o field.value \o "\n"

RECURSIVE canonicalLines(_, _)
canonicalLines(extractedFields, i) ==
    IF i > Len(fieldOrder) THEN ""
    ELSE (IF HasKey(extractedFields, fieldOrder[i])
          THEN fieldLine(Get(extractedFields, fieldOrder[i])) ELSE "")
         \o canonicalLines(extractedFields, i + 1)

RECURSIVE otherLines(_, _)
otherLines(extractedFields, i) ==
    IF i > Len(extractedFields) THEN ""
    ELSE (IF ~InSeq(extractedFields[i].k, fieldOrder)
          THEN fieldLine(extractedFields[i].v) ELSE "")
         \o otherLines(extractedFields, i + 1)

\* a test that would read the flag from the registry alone
sectionEnabledInRegistry(sectionConfig, key) ==
    ~(HasKey(SECTION_CONFIG, key) /\ Has(Get(SECTION_CONFIG, key), "enabled")
      /\ Get(SECTION_CONFIG, key).enabled = FALSE)

\* sectionConfig[key]?.enabled !== false
sectionEnabled(sectionConfig, key) ==
    ~(HasKey(sectionConfig, key) /\ Has(Get(sectionConfig, key), "enabled")
      /\ Get(sectionConfig, key).enabled = FALSE)

\* sectionConfig[key]?.label || fallback
sectionLabel(sectionConfig, key, fallback) ==
    IF HasKey(sectionConfig, key) /\ Has(Get(sectionConfig, key), "label")
       /\ Get(sectionConfig, key).label # ""
    THEN Get(sectionConfig, key).label
    ELSE fallback

generalBlock(extractedFields, sectionConfig) ==
    IF extractedFields # <<>> /\ sectionEnabled(sectionConfig, "general")
    THEN "    " \o sectionLabel(sectionConfig, "general", "Incident General Information") \o "\n"
         \o canonicalLines(extractedFields, 1) \o otherLines(extractedFields, 1)
    ELSE ""

\* a free-text block: its header and the extracted content
sectionBlock(sectionConfig, key, fallback, content) ==
    IF sectionEnabled(sectionConfig, key) /\ content # Null
    THEN "\n    " \o sectionLabel(sectionConfig, key, fallback) \o "\n" \o content.v \o "\n"
    ELSE ""

incidentBlock(text, sectionConfig) ==
    sectionBlock(sectionConfig, "incidentInfo", "Incident Information",
                 extractIncidentInformation(text))

actionBlock(text, sectionConfig) ==
    sectionBlock(sectionConfig, "actionRecommendation", "Action & Recommendation",
                 extractActionRecommendation(text))

sectionsIncluded(sectionConfig) ==
    LET Keep(e) == sectionEnabled(sectionConfig, e.k) IN Keys(SelectSeq(sectionConfig, Keep))

\* fieldFilters = {}
bodyFilters(body) == IF Has(body, "fieldFilters") THEN body.fieldFilters ELSE EmptyObject

\* res.status(200).json({ ... })
okResponse(text, fieldFilters, sectionConfig, extractedFields) ==
    [status |-> 200,
     formattedText |-> trimEnd(generalBlock(extractedFields, sectionConfig)
                               \o incidentBlock(text, sectionConfig)
                               \o actionBlock(text, sectionConfig)),
     extractedFields |-> extractedFields,
     appliedFilters |-> fieldFilters,
     sectionsIncluded |-> sectionsIncluded(sectionConfig)]

\* the catch block
serverError ==
    [status |-> 500, message |-> "An error occurred on the server while formatting the report."]

\* from the filters on, with the fields the loop found
filteredResponse(text, fieldFilters, sectionConfig, found) ==
    IF filterThrows(found, fieldFilters) THEN serverError
    ELSE okResponse(text, fieldFilters, sectionConfig, applyFieldFilters(found, fieldFilters))

\* for (const keyword of keywords) on a definition without keywords: the loop
\* over the definitions reaches one it extracts and throws a TypeError
extractionThrows(fieldConfig) ==
    \E i \in 1..Len(fieldConfig) :
        isExtracted(fieldConfig[i].v) /\ ~Has(fieldConfig[i].v, "keywords")

\* the try block after the cutoff, with the definitions in effect
reportWith(text, body, fieldConfig) ==
    IF extractionThrows(fieldConfig) THEN serverError
    ELSE filteredResponse(text, bodyFilters(body), mergedSectionConfig(body),
                          extractGeneral(text, fieldConfig, 1))

\* the try block, from the text the cutoff leaves
reportFrom(text, body) == reportWith(text, body, mergedFieldConfig(body))

\* the response the handler sends for a request body
formatReport(body) ==
    IF badRawText(body)
    THEN [status |-> 400, message |-> "Request body must contain a \"rawText\" string."]
    ELSE reportFrom(textToParse(body.rawText.v), body)

\* a handler that would write the request's overrides into the registry
fieldConfigLeak(body) ==
    IF ~badRawText(body) /\ Has(body, "customFields")
    THEN ObjectAssign(FIELD_CONFIG, body.customFields) ELSE FIELD_CONFIG

sectionConfigLeak(body) ==
    IF ~badRawText(body) /\ Has(body, "sections")
    THEN ObjectAssign(SECTION_CONFIG, body.sections) ELSE SECTION_CONFIG

\* what the handler leaves in the registry: it only reads it
fieldConfigAfterFormat(body) == FIELD_CONFIG

sectionConfigAfterFormat(body) == SECTION_CONFIG

FormatReport(body) ==
    /\ request' = [op |-> "format", body |-> body]
    /\ response' = formatReport(body)
    /\ FIELD_CONFIG' = fieldConfigAfterFormat(body)
    /\ SECTION_CONFIG' = sectionConfigAfterFormat(body)
    /\ lastFormat' = [body |-> body, response |-> response',
                      repeated |-> lastFormat # Null /\ lastFormat.body = body]
    /\ UNCHANGED nUpdates

(***************************************************************************)
(* POST /api/format-report/config and GET /api/format-report/config        *)
(***************************************************************************)
\* how many admin updates a run holds
MaxUpdates == 2

\* !fieldConfig && !sectionConfig
emptyUpdate(body) == ~Has(body, "fieldConfig") /\ ~Has(body, "sectionConfig")

\* a merge that would keep the attributes the submitted definition leaves out
RECURSIVE DeepAssignFrom(_, _, _)
DeepAssignFrom(target, source, i) ==
    IF i > Len(source) THEN target
    ELSE DeepAssignFrom(Put(target, source[i].k,
                            IF HasKey(target, source[i].k)
                            THEN source[i].v @@ Get(target, source[i].k)
                            ELSE source[i].v),
                        source, i + 1)

fieldConfigDeepMerge(body) ==
    IF ~emptyUpdate(body) /\ Has(body, "fieldConfig")
    THEN DeepAssignFrom(FIELD_CONFIG, body.fieldConfig, 1) ELSE FIELD_CONFIG

\* a merge that is cut short after the first submitted key
fieldConfigFirstKeyOnly(body) ==
    IF ~emptyUpdate(body) /\ Has(body, "fieldConfig")
    THEN ObjectAssign(FIELD_CONFIG, SubSeq(body.fieldConfig, 1, 1)) ELSE FIELD_CONFIG

fieldConfigAfterUpdate(body) ==
    IF ~emptyUpdate(body) /\ Has(body, "fieldConfig")
    THEN ObjectAssign(FIELD_CONFIG, body.fieldConfig) ELSE FIELD_CONFIG

sectionConfigAfterUpdate(body) ==
    IF ~emptyUpdate(body) /\ Has(body, "sectionConfig")
    THEN ObjectAssign(SECTION_CONFIG, body.sectionConfig) ELSE SECTION_CONFIG

UpdateConfig(body) ==
    /\ nUpdates < MaxUpdates
    /\ nUpdates' = nUpdates + 1
    /\ request' = [op |-> "updateConfig", body |-> body]
    /\ FIELD_CONFIG' = fieldConfigAfterUpdate(body)
    /\ SECTION_CONFIG' = sectionConfigAfterUpdate(body)
    /\ response' =
         IF emptyUpdate(body)
         THEN [status |-> 400,
               message |-> "Request body must contain \"fieldConfig\" and/or \"sectionConfig\" object."]
         ELSE [status |-> 200, message |-> "Configuration updated successfully",
               currentFieldConfig |-> FIELD_CONFIG', currentSectionConfig |-> SECTION_CONFIG']
    /\ lastFormat' = IF emptyUpdate(body) THEN lastFormat ELSE Null

\* applyFieldFilters on its own, with the registry as it stands
ApplyFilters(extractedFields, filters) ==
    /\ request' = [op |-> "applyFieldFilters", extractedFields |-> extractedFields,
                   filters |-> filters]
    /\ response' = [result |-> applyFieldFilters(extractedFields, filters)]
    /\ UNCHANGED <<FIELD_CONFIG, SECTION_CONFIG, lastFormat, nUpdates>>

GetConfig ==
    /\ request' = [op |-> "getConfig"]
    /\ response' = [status |-> 200, fieldConfig |-> FIELD_CONFIG, sectionConfig |-> SECTION_CONFIG]
    /\ UNCHANGED <<FIELD_CONFIG, SECTION_CONFIG, lastFormat, nUpdates>>

(***************************************************************************)
(* The lookup routes: GET /api/ip-info/:ip?, POST /api/ip-info/batch and   *)
(* GET /api/abuseipdb/:ip. Each awaits one upstream call; what the upstream *)
(* does is an input of the step.                                           *)
(***************************************************************************)
RECURSIVE splitComma(_)
\* String.prototype.split(',')
splitComma(str) ==
    IF IndexOfFrom(str, ",", 1) = 0 THEN <<str>>
    ELSE <<SubSeq(str, 1, IndexOfFrom(str, ",", 1) - 1)>>
         \o splitComma(SubSeq(str, IndexOfFrom(str, ",", 1) + 1, Len(str)))

\* Set.prototype.add on the elements in insertion order
setAdd(elements, x) == IF InSeq(x, elements) THEN elements ELSE Append(elements, x)

RECURSIVE setOf(_, _)
\* new Set(list): the first i elements of the list, each once
setOf(list, i) == IF i = 0 THEN <<>> ELSE setAdd(setOf(list, i - 1), list[i])

RECURSIVE joinComma(_)
\* Array.prototype.join(',')
joinComma(list) ==
    IF list = <<>> THEN ""
    ELSE IF Len(list) = 1 THEN list[1]
    ELSE list[1] \o "," \o joinComma(Tail(list))

\* requestedFields is Null (undefined) or Some(string)
getFieldsQuery(requestedFields, defaultFields) ==
    IF requestedFields # Null /\ requestedFields.v # ""
    THEN joinComma(setAdd(setAdd(setAdd(setOf(splitComma(requestedFields.v),
                                               Len(splitComma(requestedFields.v))),
                                        "status"), "message"), "query"))
    ELSE defaultFields

\* what the awaited call does is an input of the step: kind "answer" when it
\* resolves with a body, kind "throws" when it rejects
LookupIps == {"", "8.8.8.8", "10.0.0.1", "2001:db8::1", "bad"}

IpInfo(ip, fields, upstream) ==
    /\ request' = [op |-> "ipInfo", ip |-> ip, fields |-> fields,
                   apiUrl |-> "http://ip-api.com/json/" \o ip \o "?fields="
                              \o getFieldsQuery(fields,
                                    "status,message,country,countryCode,region,regionName,city,zip,lat,lon,timezone,isp,org,as,query"),
                   upstreamCalls |-> 1, upstream |-> upstream]
    /\ response' =
         IF upstream.kind = "throws"
         THEN [status |-> 500, message |-> "An error occurred on the server."]
         ELSE IF upstream.data.status = "success"
         THEN [status |-> 200, body |-> <<upstream.data>>]
         ELSE [status |-> 400, message |-> "Failed to retrieve IP information.",
               error |-> IF Has(upstream.data, "message") /\ upstream.data.message # ""
                         THEN upstream.data.message
                         ELSE "The external API returned a failure status."]
    /\ UNCHANGED <<FIELD_CONFIG, SECTION_CONFIG, lastFormat, nUpdates>>

\* a JSON array and its elements
Arr(items) == [type |-> "array", items |-> items]

\* !ips || !Array.isArray(ips) || ips.length === 0
badIps(body) ==
    \/ ~Has(body, "ips")
    \/ body.ips.type # "array"
    \/ body.ips.items = <<>>

IpInfoBatch(body, upstream) ==
    /\ request' =
         IF badIps(body) THEN [op |-> "ipInfoBatch", body |-> body, upstreamCalls |-> 0]
         ELSE [op |-> "ipInfoBatch", body |-> body,
               apiUrl |-> "http://ip-api.com/batch?fields="
                          \o getFieldsQuery(IF Has(body, "fields") THEN body.fields ELSE Null,
                                            "status,message,query,country,city"),
               upstreamCalls |-> 1, upstream |-> upstream]
    /\ response' =
         IF badIps(body)
         THEN [status |-> 400, message |-> "Request body must contain an array of IPs."]
         ELSE IF upstream.kind = "throws"
         THEN [status |-> 500, message |-> "An error occurred on the server."]
         ELSE [status |-> 200, body |-> upstream.data]
    /\ UNCHANGED <<FIELD_CONFIG, SECTION_CONFIG, lastFormat, nUpdates>>

\* !API_KEY, API_KEY being process.env.ABUSEIPDB_API_KEY as the request finds it
missingKey(API_KEY) == API_KEY = Null \/ API_KEY.v = ""

AbuseIpDb(ip, API_KEY, upstream) ==
    /\ request' =
         IF missingKey(API_KEY)
         THEN [op |-> "abuseipdb", ip |-> ip, API_KEY |-> API_KEY, upstreamCalls |-> 0]
         ELSE [op |-> "abuseipdb", ip |-> ip, API_KEY |-> API_KEY,
               upstreamCalls |-> 1, upstream |-> upstream]
    /\ response' =
         IF missingKey(API_KEY)
         THEN [status |-> 500, error |-> "AbuseIPDB API key not configured"]
         ELSE IF upstream.kind = "throws"
         THEN [status |-> 500, error |-> "AbuseIPDB lookup failed",
               message |-> upstream.message]
         ELSE IF ~upstream.ok
         THEN [status |-> 500, error |-> "AbuseIPDB lookup failed",
               message |-> "AbuseIPDB API responded with status: " \o upstream.status]
         ELSE [status |-> 200, body |-> upstream.data]
    /\ UNCHANGED <<FIELD_CONFIG, SECTION_CONFIG, lastFormat, nUpdates>>

(***************************************************************************)
(* The server: requests arrive one at a time (the handlers are synchronous) *)
(***************************************************************************)
\* which handler served the last request
IsFormat == IF request = Null THEN FALSE ELSE request.op = "format"

IsUpdate == IF request = Null THEN FALSE ELSE request.op = "updateConfig"

IsFilterCall == IF request = Null THEN FALSE ELSE request.op = "applyFieldFilters"

Init ==
    /\ FIELD_CONFIG = InitialFieldConfig
    /\ SECTION_CONFIG = InitialSectionConfig
    /\ request = Null
    /\ response = Null
    /\ lastFormat = Null
    /\ nUpdates = 0

Next ==
    \/ \E body \in FormatBodies : FormatReport(body)
    \/ \E body \in UpdateBodies : UpdateConfig(body)
    \/ GetConfig

Spec == Init /\ [][Next]_vars

\* one composed report formatted after some admin updates
NextExtract ==
    \/ \E t \in ComposedTexts : lastFormat = Null /\ FormatReport([rawText |-> Str(t)])
    \/ \E body \in UpdateBodies : lastFormat = Null /\ UpdateConfig(body)

SpecExtract == Init /\ [][NextExtract]_vars

\* one call of applyFieldFilters after some admin updates
NextFilter ==
    \/ \E extractedFields \in FieldMaps, filters \in HarnessFilters :
          ~IsFilterCall /\ ApplyFilters(extractedFields, filters)
    \/ \E u \in FieldUpdates : ~IsFilterCall /\ UpdateConfig([fieldConfig |-> u])

SpecFilter == Init /\ [][NextFilter]_vars

\* the lookup routes alone: ip-api answers with a record that reports success or
\* a failure, the batch with one record per address, AbuseIPDB with a response
\* that is ok or not; each call can also reject
NextLookup ==
    \/ \E ip \in LookupIps,
          fields \in {Null, Some("country"), Some("status,city"), Some("city,city")},
          upstream \in {"success", "fail", "failNoMessage", "throws"} :
          IpInfo(ip, fields,
                 CASE upstream = "success" ->
                        [kind |-> "answer", data |-> [status |-> "success", query |-> ip]]
                   [] upstream = "fail" ->
                        [kind |-> "answer",
                         data |-> [status |-> "fail", message |-> "invalid query",
                                   query |-> ip]]
                   [] upstream = "failNoMessage" ->
                        [kind |-> "answer", data |-> [status |-> "fail", query |-> ip]]
                   [] upstream = "throws" -> [kind |-> "throws"])
    \/ \E ips \in {<<"8.8.8.8">>, <<"8.8.8.8", "bad">>},
          fields \in {EmptyObject, [fields |-> Some("country")],
                      [fields |-> Some("status,city")]},
          rejects \in BOOLEAN :
          IpInfoBatch([ips |-> Arr(ips)] @@ fields,
                      IF rejects THEN [kind |-> "throws"]
                      ELSE [kind |-> "answer",
                            data |-> [i \in 1..Len(ips) |->
                                        IF ips[i] = "bad"
                                        THEN [status |-> "fail", message |-> "invalid query",
                                              query |-> ips[i]]
                                        ELSE [status |-> "success", query |-> ips[i]]]])
    \/ \E body \in {EmptyObject, [ips |-> Str("8.8.8.8")], [ips |-> Arr(<<>>)]} :
          IpInfoBatch(body, [kind |-> "throws"])
    \/ \E ip \in LookupIps \ {""}, API_KEY \in {Null, Some("abuse-key")},
          upstream \in
            { [kind |-> "answer", ok |-> TRUE,
               data |-> [data |-> [abuseConfidenceScore |-> "0"]]],
              [kind |-> "answer", ok |-> FALSE, status |-> "422",
               text |-> "The ip address must be a valid IPv4 or IPv6 address."],
              [kind |-> "answer", ok |-> FALSE, status |-> "429",
               text |-> "Too Many Requests"],
              [kind |-> "throws", message |-> "fetch failed"] } :
          AbuseIpDb(ip, API_KEY, upstream)

SpecLookup == Init /\ [][NextLookup]_vars

(***************************************************************************)
(* Properties                                                              *)
(***************************************************************************)
\* the filters a format request carries
requestFilters == bodyFilters(request.body)

StartsWith(s, prefix) == Len(s) >= Len(prefix) /\ SubSeq(s, 1, Len(prefix)) = prefix

RECURSIVE SplitLines(_)
SplitLines(text) ==
    LET p == IndexOfFrom(text, "\n", 1)
    IN IF p = 0 THEN <<text>>
       ELSE <<SubSeq(text, 1, p - 1)>> \o SplitLines(SubSeq(text, p + 1, Len(text)))

RECURSIVE UpToBlank(_)
UpToBlank(ls) == IF ls = <<>> \/ Head(ls) = "" THEN <<>> ELSE <<Head(ls)>> \o UpToBlank(Tail(ls))

\* the lines under the header of the general block of an output text
GeneralLines(formattedText) ==
    IF StartsWith(formattedText, "    ") THEN UpToBlank(Tail(SplitLines(formattedText))) ELSE <<>>

\* C1: a format request whose fieldFilters.maxFields is a number N >= 0 (0 included)
\* answers with at most N entries in extractedFields and at most N field lines in
\* the general block of formattedText.
C1_MaxFieldsBound ==
    (IsFormat /\ response.status = 200 /\ Has(requestFilters, "maxFields")
       /\ requestFilters.maxFields >= 0)
    => /\ Len(response.extractedFields) <= requestFilters.maxFields
       /\ Len(GeneralLines(response.formattedText)) <= requestFilters.maxFields

\* the priority a field's definition gives, absent when it gives none
statedPriority(fieldConfig, key) ==
    IF HasKey(fieldConfig, key) /\ Has(Get(fieldConfig, key), "priority")
    THEN Some(Get(fieldConfig, key).priority) ELSE Null

\* a sorts strictly before b: a smaller priority, or a priority against none
SortsBefore(a, b) == a # Null /\ (IF b = Null THEN TRUE ELSE a.v < b.v)

RECURSIVE InsertByStated(_, _, _)
InsertByStated(sorted, x, fieldConfig) ==
    IF sorted = <<>> THEN <<x>>
    ELSE IF SortsBefore(statedPriority(fieldConfig, x.k), statedPriority(fieldConfig, Head(sorted).k))
    THEN <<x>> \o sorted
    ELSE <<Head(sorted)>> \o InsertByStated(Tail(sorted), x, fieldConfig)

RECURSIVE SortByStated(_, _, _)
SortByStated(entries, i, fieldConfig) ==
    IF i = 0 THEN <<>>
    ELSE InsertByStated(SortByStated(entries, i - 1, fieldConfig), entries[i], fieldConfig)

\* the fields of a format request that the three selecting stages leave
remainingFields ==
    LET found == extractGeneral(textToParse(request.body.rawText.v),
                                mergedFieldConfig(request.body), 1)
    IN keywordSearch(denyList(allowList(found, requestFilters), requestFilters), requestFilters)

\* C2: when the cap N is applied, the fields kept are the first N of the remaining
\* fields in ascending priority, the priority being the one of the definition in
\* effect for the request (registry merged with customFields), a priority of 0
\* sorting at 0, a field without priority after every field with one, ties in
\* discovery order.
C2_CapKeepsByStatedPriority ==
    (IsFormat /\ response.status = 200 /\ Has(requestFilters, "maxFields")
       /\ requestFilters.maxFields >= 1)
    => LET sorted == SortByStated(remainingFields, Len(remainingFields),
                                  mergedFieldConfig(request.body))
       IN KeySet(response.extractedFields) = KeySet(sliceTo(sorted, requestFilters.maxFields))

\* the same letter, in either case
SameLetter(a, b) ==
    \/ a = b
    \/ \E i \in 1..Len(UpperLetters) : {a, b} = {CharAt(UpperLetters, i), CharAt(LowerLetters, i)}

\* sub occurs in s when the case of letters is ignored
ContainsIgnoringCase(s, sub) ==
    \E p \in 1..(Len(s) - Len(sub) + 1) :
        \A j \in 1..Len(sub) : SameLetter(CharAt(s, p + j - 1), CharAt(sub, j))

MatchesSomeKeyword(field, keywords) ==
    \E i \in 1..Len(keywords) :
        \/ ContainsIgnoringCase(field.label, keywords[i])
        \/ ContainsIgnoringCase(field.value, keywords[i])

\* C3: with includeOnly as the only filter, applyFieldFilters keeps exactly the
\* fields whose label or value contains one of the keywords, case ignored, drops
\* every other field, and leaves the kept fields and their order as they were.
C3_IncludeOnlyKeepsMatches ==
    (IsFilterCall /\ DOMAIN request.filters = {"includeOnly"})
    => response.result
         = SelectSeq(request.extractedFields,
                     LAMBDA e : MatchesSomeKeyword(e.v, request.filters.includeOnly))

C3_Witness ==
    /\ IsFilterCall
    /\ request.filters = [includeOnly |-> <<"MAL">>]
    /\ Len(request.extractedFields) = 4
    /\ Keys(response.result) = <<"category", "owner">>

\* a field passes the allow-list, the deny-list and the keyword search
PassesSelection(e, filters) ==
    /\ Has(filters, "enabled") => InSeq(e.k, filters.enabled)
    /\ Has(filters, "disabled") => ~InSeq(e.k, filters.disabled)
    /\ Has(filters, "includeOnly") => MatchesSomeKeyword(e.v, filters.includeOnly)

\* C4: applyFieldFilters is the cap applied to what allow-list, deny-list and
\* keyword search leave, in that order; its result holds only fields of its input;
\* an empty filter object returns the input unchanged.
C4_StagesInOrder ==
    IsFilterCall
    => /\ response.result
            = maxCount(SelectSeq(request.extractedFields,
                                 LAMBDA e : PassesSelection(e, request.filters)),
                       request.filters)
       /\ \A i \in 1..Len(response.result) : InSeq(response.result[i], request.extractedFields)
       /\ request.filters = EmptyObject => response.result = request.extractedFields

C4_Witness ==
    /\ IsFilterCall
    /\ DOMAIN request.filters = {"enabled", "disabled", "includeOnly", "maxFields"}
    /\ request.filters.includeOnly = <<"MAL">>
    /\ request.filters.maxFields = 1
    /\ Len(request.extractedFields) = 4
    /\ Keys(response.result) = <<"owner">>

\* the entries an update body submits under a name
submitted(body, name) == IF Has(body, name) THEN body[name] ELSE <<>>

\* new is old with every submitted key's definition replaced as a whole
ReplacedPerKey(old, new, source) ==
    /\ KeySet(new) = KeySet(old) \cup KeySet(source)
    /\ \A k \in KeySet(new) :
          Get(new, k) = IF HasKey(source, k) THEN Get(source, k) ELSE Get(old, k)

\* C5: an accepted admin update with fieldConfig keys K leaves every registry entry
\* outside K as it was and makes every key in K hold exactly the definition
\* submitted, with no attribute of the old definition kept; the same holds for
\* sectionConfig and the section registry.
C5_MergeReplacesPerKey ==
    [][(request'.op = "updateConfig" /\ response'.status = 200)
       => /\ ReplacedPerKey(FIELD_CONFIG, FIELD_CONFIG', submitted(request'.body, "fieldConfig"))
          /\ ReplacedPerKey(SECTION_CONFIG, SECTION_CONFIG',
                            submitted(request'.body, "sectionConfig"))]_vars

C5_Witness ==
    /\ IsUpdate
    /\ response.status = 200
    /\ nUpdates = 2
    /\ HasKey(FIELD_CONFIG, "owner")
    /\ DOMAIN Get(FIELD_CONFIG, "severity") = {"keywords", "section", "outputLabel"}
    /\ Get(FIELD_CONFIG, "category") = Get(InitialFieldConfig, "category")

\* C6: a format request and a configuration read leave both registries as they
\* were, whatever customFields and sections the request carries; a format request
\* without customFields extracts no field that only an earlier request's
\* customFields defined.
C6_OnlyUpdateChangesRegistry ==
    /\ [][request'.op \in {"format", "getConfig"}
          => FIELD_CONFIG' = FIELD_CONFIG /\ SECTION_CONFIG' = SECTION_CONFIG]_vars
    /\ []((IsFormat /\ response.status = 200 /\ ~Has(request.body, "customFields"))
          => \A k \in KeySet(response.extractedFields) : HasKey(FIELD_CONFIG, k))

C6_Witness ==
    /\ IsFormat
    /\ Has(request.body, "customFields")
    /\ response.status = 200
    /\ HasKey(response.extractedFields, "owner")
    /\ ~HasKey(FIELD_CONFIG, "owner")
    /\ FIELD_CONFIG = InitialFieldConfig

\* rawText is missing, is not a string, or is the empty string
RawTextRejected(body) ==
    IF "rawText" \in DOMAIN body
    THEN body.rawText.type # "string" \/ body.rawText.v = ""
    ELSE TRUE

\* C7: a format request whose rawText is missing, not a string or empty is answered
\* 400 with the rawText message, and an admin update with neither fieldConfig nor
\* sectionConfig is answered 400; both leave the registries unchanged.
C7_RejectedRequests ==
    [][/\ (request'.op = "format" /\ RawTextRejected(request'.body))
          => /\ response' = [status |-> 400,
                             message |-> "Request body must contain a \"rawText\" string."]
             /\ FIELD_CONFIG' = FIELD_CONFIG /\ SECTION_CONFIG' = SECTION_CONFIG
       /\ (request'.op = "updateConfig"
             /\ DOMAIN request'.body \cap {"fieldConfig", "sectionConfig"} = {})
          => /\ response'.status = 400
             /\ FIELD_CONFIG' = FIELD_CONFIG /\ SECTION_CONFIG' = SECTION_CONFIG]_vars

C7_Witness ==
    /\ IsFormat
    /\ request.body = [rawText |-> Num("42")]
    /\ response.status = 400
    /\ FIELD_CONFIG # InitialFieldConfig

\* a line that begins, after leading blanks, with one of the two markers
IsMarkerLine(line) ==
    \/ StartsWith(toLowerCase(trimStart(line)), "graph")
    \/ StartsWith(toLowerCase(trimStart(line)), "additional detail")

HasMarkerLine(text) == \E i \in 1..Len(SplitLines(text)) : IsMarkerLine(SplitLines(text)[i])

\* the lines above the first marker line, joined again
BeforeMarker(text) ==
    LET ls == SplitLines(text)
        first == CHOOSE i \in 1..Len(ls) :
                    IsMarkerLine(ls[i]) /\ \A j \in 1..(i - 1) : ~IsMarkerLine(ls[j])
    IN IF first = 1 THEN "" ELSE Join(SubSeq(ls, 1, first - 1))

\* C8: when a line of rawText, the first line included, begins after optional
\* leading blanks with Graph or Additional detail (any case), the response is the
\* one the lines above the first such line give: nothing is extracted from the
\* marker line or from a line after it.
C8_CutoffAtMarkerLine ==
    (IsFormat /\ ~RawTextRejected(request.body) /\ HasMarkerLine(request.body.rawText.v))
    => response = reportFrom(BeforeMarker(request.body.rawText.v), request.body)

\* the trimmed text after the colon when the line is `keyword : value`
StandaloneValue(line, keyword) ==
    IF StartsWith(line, keyword)
    THEN LET rest == trimStart(SubSeq(line, Len(keyword) + 1, Len(line)))
         IN IF StartsWith(rest, ":") /\ trim(SubSeq(rest, 2, Len(rest))) # ""
            THEN Some(trim(SubSeq(rest, 2, Len(rest)))) ELSE Null
    ELSE Null

\* C9: when a keyword of an enabled general field stands alone on a line of the
\* parsed text as `Keyword : value`, the field is extracted with the trimmed text
\* after the colon on that line, also when the line of another field holds the
\* keyword as a part of its own.
C9_StandaloneLineValue ==
    (IsFormat /\ response.status = 200 /\ requestFilters = EmptyObject)
    => LET fieldConfig == mergedFieldConfig(request.body)
           ls == SplitLines(textToParse(request.body.rawText.v))
       IN \A f \in 1..Len(fieldConfig) :
            isExtracted(fieldConfig[f].v)
            => \A w \in 1..Len(fieldConfig[f].v.keywords), l \in 1..Len(ls) :
                 LET found == StandaloneValue(ls[l], fieldConfig[f].v.keywords[w])
                 IN found # Null
                    => /\ HasKey(response.extractedFields, fieldConfig[f].k)
                       /\ Get(response.extractedFields, fieldConfig[f].k).value = found.v

\* C10: a format request with the body of the format request before it, and no
\* accepted update between the two, gets the response the first one got.
C10_SameRequestSameResponse ==
    [][(request'.op = "format" /\ lastFormat # Null /\ lastFormat' # Null
          /\ lastFormat'.repeated)
       => response' = lastFormat.response]_vars

C10_Witness ==
    /\ IsFormat
    /\ lastFormat # Null
    /\ lastFormat.repeated
    /\ response.status = 200
    /\ Has(request.body, "customFields")
    /\ requestFilters = CapAfterDeny
    /\ Keys(response.extractedFields) = <<"deviceAction">>

\* a string with a character that is no blank at either end
IsTrimmedText(v) ==
    /\ v # ""
    /\ CharAt(v, 1) \notin WhiteSpace
    /\ CharAt(v, Len(v)) \notin WhiteSpace

\* the enabled general fields of the request for which extraction gives no text
FieldsWithoutValue ==
    LET fieldConfig == mergedFieldConfig(request.body)
        text == textToParse(request.body.rawText.v)
    IN {fieldConfig[i].k : i \in {j \in 1..Len(fieldConfig) :
            /\ isExtracted(fieldConfig[j].v)
            /\ extractFieldValue(text, fieldConfig[j].v) \in {Null, Some("")}}}

\* C11: in every 200 response of the format operation every entry of
\* extractedFields has a non-empty value without blanks at its ends, a field for
\* which extraction yields no non-empty value is absent from the map, and no line
\* of the general block ends at its colon.
C11_ValuesNonEmptyTrimmed ==
    (IsFormat /\ response.status = 200)
    => /\ \A i \in 1..Len(response.extractedFields) :
             IsTrimmedText(response.extractedFields[i].v.value)
       /\ KeySet(response.extractedFields) \cap FieldsWithoutValue = {}
       /\ \A l \in 1..Len(GeneralLines(response.formattedText)) :
             LET line == GeneralLines(response.formattedText)[l]
             IN ~(Len(line) >= 2 /\ SubSeq(line, Len(line) - 1, Len(line)) = " :")

C11_Witness ==
    /\ IsFormat
    /\ response.status = 200
    /\ request.body = [rawText |-> Str("Category : Malware\nDevice Action : \t")]
    /\ "deviceAction" \in FieldsWithoutValue
    /\ extractFieldValue(request.body.rawText.v, Get(FIELD_CONFIG, "deviceAction")) = Some("")
    /\ Keys(response.extractedFields) = <<"category">>

\* the definition in effect for a section: the request's, else the registry's
SectionInEffect(key) ==
    LET overrides == IF "sections" \in DOMAIN request.body THEN request.body.sections ELSE <<>>
    IN IF HasKey(overrides, key) THEN Some(Get(overrides, key))
       ELSE IF HasKey(SECTION_CONFIG, key) THEN Some(Get(SECTION_CONFIG, key))
       ELSE Null

SwitchedOff(key) ==
    LET def == SectionInEffect(key)
    IN IF def = Null THEN FALSE
       ELSE "enabled" \in DOMAIN def.v /\ def.v.enabled = FALSE

HeaderOf(key, fallback) ==
    LET def == SectionInEffect(key)
    IN "    " \o (IF def # Null /\ "label" \in DOMAIN def.v THEN def.v.label ELSE fallback)

\* the block of a section that is not switched off and has content: its header
\* line, then the content and the line end that closes it
BlockOf(key, fallback, lead, content, close) ==
    IF SwitchedOff(key) \/ content = "" THEN ""
    ELSE lead \o HeaderOf(key, fallback) \o "\n" \o content \o close

\* the text a free-text extractor found, empty when it found none
ContentOf(found) == IF found = Null THEN "" ELSE found.v

\* C12: a section whose enabled flag is false, in the registry or in the request's
\* sections, puts no header and no content into formattedText; a section that is
\* not switched off is emitted exactly when its content is non-empty (the general
\* one: when a field remains after filtering).
C12_DisabledSectionsOmitted ==
    (IsFormat /\ response.status = 200)
    => LET text == textToParse(request.body.rawText.v)
           general == canonicalLines(response.extractedFields, 1)
                      \o otherLines(response.extractedFields, 1)
           incident == ContentOf(extractIncidentInformation(text))
           action == ContentOf(extractActionRecommendation(text))
       IN /\ response.formattedText
               = trimEnd(BlockOf("general", "Incident General Information", "", general, "")
                         \o BlockOf("incidentInfo", "Incident Information", "\n", incident, "\n")
                         \o BlockOf("actionRecommendation", "Action & Recommendation",
                                    "\n", action, "\n"))
          /\ SwitchedOff("general")
                => ~StartsWith(response.formattedText,
                               HeaderOf("general", "Incident General Information"))
          /\ SwitchedOff("incidentInfo")
                => ~includes(response.formattedText,
                             HeaderOf("incidentInfo", "Incident Information") \o "\n")
          /\ (~SwitchedOff("general") /\ response.extractedFields # <<>>)
                => StartsWith(response.formattedText,
                              HeaderOf("general", "Incident General Information") \o "\n")

C12_Witness ==
    /\ IsFormat
    /\ response.status = 200
    /\ Has(request.body, "sections")
    /\ SwitchedOff("incidentInfo")
    /\ extractIncidentInformation(textToParse(request.body.rawText.v)) = Some("port scan")
    /\ response.formattedText = "\n    Action & Recommendation\nBlock sender"

\* a definition whose keywords are a list
HasKeywordList(def) == "keywords" \in DOMAIN def

WellFormedOnly(fieldConfig) == SelectSeq(fieldConfig, LAMBDA e : HasKeywordList(e.v))

\* C13: a definition with a malformed keyword list, installed by an admin update
\* or passed as customFields, only fails to match: every format request with a
\* valid rawText answers 200, without that field and with every other field as it
\* is extracted when the malformed definition is not there.
C13_MalformedOnlyFailsToMatch ==
    (IsFormat /\ ~RawTextRejected(request.body))
    => /\ response.status = 200
       /\ response = reportWith(textToParse(request.body.rawText.v), request.body,
                                WellFormedOnly(mergedFieldConfig(request.body)))

\* the keyword stands at p, in any letter case, with a colon after optional blanks
LabelAt(text, p, keyword) ==
    /\ p + Len(keyword) - 1 <= Len(text)
    /\ \A j \in 1..Len(keyword) : SameLetter(CharAt(text, p + j - 1), CharAt(keyword, j))
    /\ \E q \in (p + Len(keyword))..Len(text) :
          /\ CharAt(text, q) = ":"
          /\ \A r \in (p + Len(keyword))..(q - 1) : CharAt(text, r) \in WhiteSpace

\* the keywords of the definitions in effect
KeywordsInEffect(fieldConfig) ==
    UNION {{fieldConfig[i].v.keywords[w] : w \in 1..Len(fieldConfig[i].v.keywords)} :
             i \in {j \in 1..Len(fieldConfig) : HasKeywordList(fieldConfig[j].v)}}

\* no keyword with its colon and neither section header occurs in the text
Unrecognized(text, fieldConfig) ==
    /\ \A keyword \in KeywordsInEffect(fieldConfig) :
          \A p \in 1..Len(text) : ~LabelAt(text, p, keyword)
    /\ ~includes(text, "Incident Information")
    /\ ~includes(text, "Action & Recommendation")

\* C14: a non-empty rawText in which no field keyword followed by a colon and
\* neither section header occurs is answered 200 with an empty formattedText and
\* an empty extractedFields map, in every state of the registry.
C14_UnrecognizedGivesEmptyReport ==
    (IsFormat /\ ~RawTextRejected(request.body)
       /\ Unrecognized(request.body.rawText.v, mergedFieldConfig(request.body)))
    => /\ response.status = 200
       /\ response.formattedText = ""
       /\ response.extractedFields = <<>>

\* the last request went to one of the three lookup routes
IsLookup ==
    IF request = Null THEN FALSE ELSE request.op \in {"ipInfo", "ipInfoBatch", "abuseipdb"}

\* the upstream answered, and the answer reports a failure
UpstreamUnsuccessful ==
    /\ request.upstreamCalls = 1
    /\ request.upstream.kind = "answer"
    /\ CASE request.op = "ipInfo" -> request.upstream.data.status # "success"
         [] request.op = "ipInfoBatch" ->
              \E i \in 1..Len(request.upstream.data) :
                  request.upstream.data[i].status # "success"
         [] request.op = "abuseipdb" -> ~request.upstream.ok

\* what the upstream gave as the reason of its failure
UpstreamReasons ==
    CASE request.op = "ipInfo" ->
           IF "message" \in DOMAIN request.upstream.data
           THEN {request.upstream.data.message} ELSE {}
      [] request.op = "ipInfoBatch" ->
           {request.upstream.data[i].message :
              i \in {j \in 1..Len(request.upstream.data) :
                       request.upstream.data[j].status # "success"}}
      [] request.op = "abuseipdb" -> {request.upstream.text}

\* the strings of a response body
ResponseStrings ==
    {response[f] : f \in (DOMAIN response) \cap {"message", "error"}}

GenericMessages == {"An error occurred on the server.", "AbuseIPDB lookup failed"}

\* C15: each of the three lookup routes answers 400 with the upstream's reason
\* when the upstream answers with a failure, answers 500 with a generic message
\* when the call fails, and the reputation route answers 500 without calling the
\* upstream when no key is configured.
C15_UpstreamFailureMapping ==
    IsLookup
    => /\ (request.upstreamCalls = 1 /\ UpstreamUnsuccessful)
            => /\ response.status = 400
               /\ UpstreamReasons \subseteq ResponseStrings
       /\ (request.upstreamCalls = 1 /\ request.upstream.kind = "throws")
            => /\ response.status = 500
               /\ ResponseStrings \cap GenericMessages # {}
       /\ (request.op = "abuseipdb" /\ request.API_KEY = Null)
            => response.status = 500 /\ request.upstreamCalls = 0

\* what strategy n of the fixed order captures for one keyword: Some(trimmed text
\* that is not empty), or Null when the strategy finds nothing or only blanks
strategyValue(text, keyword, n) ==
    CASE n = 1 -> trimmedCapture(match(text, tabularPattern(keyword), TRUE))
      [] n = 2 -> trimmedCapture(match(text, sameLineNoClosing(keyword), TRUE))
      [] n = 3 -> trimmedCapture(match(text, nextLineNoClosing(keyword), TRUE))
      [] n = 4 -> trimmedCapture(match(text, boldPattern(keyword), TRUE))
      [] n = 5 -> trimmedCapture(match(text, nextLinePattern(keyword), TRUE))
      [] n = 6 -> trimmedCapture(match(text, simpleLinePattern(keyword), FALSE))
      [] n = 7 -> LET m == match(text, simplePattern(keyword), FALSE)
                  IN IF m.ok THEN trimmedCapture(match(m.g1, genericPattern, FALSE)) ELSE Null
      [] n = 8 -> multiLineCapture(match(text, multiLinePattern(keyword), TRUE))

\* the value of the first (keyword, strategy) pair, keywords first, whose trimmed
\* capture is not empty; Null when there is no such pair
firstPairValue(text, keywords) ==
    LET hits == {p \in (1..Len(keywords)) \X (1..8) :
                    strategyValue(text, keywords[p[1]], p[2]) # Null}
    IN IF hits = {} THEN Null
       ELSE LET first == CHOOSE p \in hits :
                            \A q \in hits : p[1] < q[1] \/ (p[1] = q[1] /\ p[2] <= q[2])
            IN strategyValue(text, keywords[first[1]], first[2])

\* the walk on the reports the server is sent, computed once
walkTable ==
    [t \in {cutoffTable[x] : x \in ServerTexts \cup EdgeTexts} |->
        [ks \in KeywordLists |-> firstPairValue(t, ks)]]

\* C16: in a 200 response of a format request without filters, every enabled
\* general field carries the value of the first (keyword, strategy) pair, keywords
\* in declared order and the eight strategies in their fixed order, whose trimmed
\* capture is not empty; a pair with an empty or blank capture does not end the
\* walk, and the field is absent only when no pair has a value.
C16_FirstNonEmptyPairWins ==
    (IsFormat /\ response.status = 200 /\ requestFilters = EmptyObject)
    => LET fieldConfig == mergedFieldConfig(request.body)
           text == textToParse(request.body.rawText.v)
       IN \A f \in 1..Len(fieldConfig) :
            isExtracted(fieldConfig[f].v)
            => LET walked == IF text \in DOMAIN walkTable
                                    /\ fieldConfig[f].v.keywords \in KeywordLists
                             THEN walkTable[text][fieldConfig[f].v.keywords]
                             ELSE firstPairValue(text, fieldConfig[f].v.keywords)
               IN IF walked = Null
                  THEN ~HasKey(response.extractedFields, fieldConfig[f].k)
                  ELSE /\ HasKey(response.extractedFields, fieldConfig[f].k)
                       /\ Get(response.extractedFields, fieldConfig[f].k).value = walked.v

\* the keys the general block lists first, in this order
CanonicalKeys ==
    <<"category", "subCategories", "deviceAction", "severity", "dateOfIssue",
      "startTime", "endTime", "destinationPort">>

\* the keys of a field map in the order the claim lists them: the canonical ones
\* that are in the map, then the others as the map holds them
ListedKeys(fields) ==
    SelectSeq(CanonicalKeys, LAMBDA k : HasKey(fields, k))
    \o SelectSeq(Keys(fields), LAMBDA k : ~InSeq(k, CanonicalKeys))

ListedLines(fields) ==
    [i \in 1..Len(ListedKeys(fields)) |->
        Get(fields, ListedKeys(fields)[i]).label \o " : " \o Get(fields, ListedKeys(fields)[i]).value]

\* where the header line of a section stands in formattedText, 0 when it is not there
HeaderAt(key, fallback, lead) ==
    IndexOfFrom(response.formattedText, lead \o HeaderOf(key, fallback) \o "\n", 1)

\* C17: in every 200 response of the format operation the general header, when
\* there, opens formattedText and stands before the Incident Information header,
\* which stands before the Action & Recommendation header; the lines of the
\* general block are, one `Label : value` line for each field of the filtered
\* extractedFields and no other line, the canonical keys in canonical order and
\* then the remaining fields in the order of the map.
C17_BlocksAndFieldsInOrder ==
    (IsFormat /\ response.status = 200)
    => LET general == HeaderAt("general", "Incident General Information", "")
           incident == HeaderAt("incidentInfo", "Incident Information", "\n")
           action == HeaderAt("actionRecommendation", "Action & Recommendation", "\n")
       IN /\ (general > 0 /\ incident > 0) => general < incident
          /\ (incident > 0 /\ action > 0) => incident < action
          /\ (general > 0 /\ action > 0) => general < action
          /\ (~SwitchedOff("general") /\ response.extractedFields # <<>>)
                => /\ general = 1
                   /\ GeneralLines(response.formattedText)
                        = ListedLines(response.extractedFields)

C17_Witness ==
    /\ IsFormat
    /\ response.status = 200
    /\ nUpdates >= 1
    /\ Keys(response.extractedFields) = <<"category", "signature", "severity">>
    /\ GeneralLines(response.formattedText)
         = <<"Category : Malware", "Severity : High", "Signature : Trojan">>
    /\ HeaderAt("incidentInfo", "Incident Information", "\n") > 0
    /\ HeaderAt("actionRecommendation", "Action & Recommendation", "\n")
         > HeaderAt("incidentInfo", "Incident Information", "\n")

\* the keys of a registry whose definition differs between two states of it
ChangedKeys(old, new) ==
    {k \in KeySet(old) \cup KeySet(new) :
        ~(HasKey(old, k) /\ HasKey(new, k) /\ Get(old, k) = Get(new, k))}

\* the merge as the claim describes it: the submitted keys are replaced one at a
\* time, so that a step a format request can follow replaces at most one key of
\* the two registries.
C18_MergeVisibleKeyByKey ==
    [][request'.op = "updateConfig"
       => Cardinality(ChangedKeys(FIELD_CONFIG, FIELD_CONFIG'))
            + Cardinality(ChangedKeys(SECTION_CONFIG, SECTION_CONFIG')) <= 1]_vars

\* the entries of an object
Entries(obj) == {obj[i] : i \in 1..Len(obj)}

\* the update bodies that submit more than one key, over both registries
MultiKeyUpdates ==
    {u \in UpdateBodies :
        Len(submitted(u, "fieldConfig")) + Len(submitted(u, "sectionConfig")) >= 2}

\* the submitted keys of an update whose definition in the registries is the
\* submitted one
AppliedKeys(u) ==
    {<<"fieldConfig", e.k>> : e \in {x \in Entries(submitted(u, "fieldConfig")) :
        HasKey(FIELD_CONFIG, x.k) /\ Get(FIELD_CONFIG, x.k) = x.v}}
    \cup {<<"sectionConfig", e.k>> : e \in {x \in Entries(submitted(u, "sectionConfig")) :
        HasKey(SECTION_CONFIG, x.k) /\ Get(SECTION_CONFIG, x.k) = x.v}}

SubmittedKeys(u) ==
    {<<"fieldConfig", e.k>> : e \in Entries(submitted(u, "fieldConfig"))}
    \cup {<<"sectionConfig", e.k>> : e \in Entries(submitted(u, "sectionConfig"))}

\* C18: the handlers run to completion one after the other, so the registries a
\* format request reads hold every multi-key update (the updates sent have no key
\* in common) with all of its keys replaced or with none; a report that holds a
\* field only such an update defines was made with the update's other definitions
\* in effect too.
C18_UpdateSeenWholeOrNotAtAll ==
    \A u \in MultiKeyUpdates :
        /\ AppliedKeys(u) \in {{}, SubmittedKeys(u)}
        /\ (IsFormat /\ response.status = 200 /\ ~Has(request.body, "customFields"))
              => \A e \in Entries(submitted(u, "fieldConfig")) :
                    (HasKey(response.extractedFields, e.k) /\ ~HasKey(InitialFieldConfig, e.k))
                    => AppliedKeys(u) = SubmittedKeys(u)

C18_Witness ==
    /\ IsFormat
    /\ response.status = 200
    /\ ~Has(request.body, "customFields")
    /\ HasKey(response.extractedFields, "owner")
    /\ HasKey(response.extractedFields, "deviceAction")
    /\ Get(FIELD_CONFIG, "deviceAction").priority = 0

\* a text with every occurrence of a keyword written in small letters
recase(text, keyword) == replaceAllFrom(text, Text(keyword), toLowerCase(keyword), 1)

\* the value a response holds for a field, Null when the field is absent
ValueIn(fields, key) == IF HasKey(fields, key) THEN Some(Get(fields, key).value) ELSE Null

\* the value extraction stores for a definition: Null for no value and for ""
StoredValue(text, def) ==
    IF extractFieldValue(text, def) = Some("") THEN Null ELSE extractFieldValue(text, def)

\* C19: for every enabled general field and every keyword of it, the value a 200
\* response without filters holds for the field is the value extracted from the
\* same report with the occurrences of the keyword written in small letters
\* (compared for the re-written reports that are among the texts of the model).
C19_KeywordCaseIgnored ==
    (IsFormat /\ response.status = 200 /\ requestFilters = EmptyObject)
    => LET fieldConfig == mergedFieldConfig(request.body)
           rawText == request.body.rawText.v
       IN \A f \in 1..Len(fieldConfig) :
            isExtracted(fieldConfig[f].v)
            => \A w \in 1..Len(fieldConfig[f].v.keywords) :
                 LET other == recase(rawText, fieldConfig[f].v.keywords[w])
                 IN other \in RawTexts
                    => StoredValue(textToParse(other), fieldConfig[f].v)
                         = ValueIn(response.extractedFields, fieldConfig[f].k)

\* the definition in effect for a field: the request's customFields one, else the
\* registry's
FieldInEffect(key) ==
    LET custom == IF "customFields" \in DOMAIN request.body THEN request.body.customFields
                  ELSE <<>>
    IN IF HasKey(custom, key) THEN Get(custom, key) ELSE Get(FIELD_CONFIG, key)

DefinedKeys ==
    KeySet(FIELD_CONFIG)
    \cup (IF "customFields" \in DOMAIN request.body THEN KeySet(request.body.customFields)
          ELSE {})

\* enabled is false, or the section tag is not 'general'
LeftOut(def) ==
    \/ "enabled" \in DOMAIN def /\ def.enabled = FALSE
    \/ "section" \notin DOMAIN def
    \/ def.section # "general"

\* C20: in every 200 response of the format operation a field whose definition in
\* effect has enabled = false or a section tag other than 'general' is not in
\* extractedFields and has no line in the general block, whatever the allow-list
\* names; a general field whose definition leaves the enabled flag out and for
\* which the report has a value is in the response of a request without filters.
C20_DisabledFieldsNeverShown ==
    (IsFormat /\ response.status = 200)
    => \A key \in DefinedKeys :
         /\ LeftOut(FieldInEffect(key))
               => /\ ~HasKey(response.extractedFields, key)
                  /\ \A l \in 1..Len(GeneralLines(response.formattedText)) :
                        ~StartsWith(GeneralLines(response.formattedText)[l],
                                    FieldInEffect(key).outputLabel \o " : ")
         /\ (/\ ~LeftOut(FieldInEffect(key))
             /\ "enabled" \notin DOMAIN FieldInEffect(key)
             /\ requestFilters = EmptyObject
             /\ StoredValue(textToParse(request.body.rawText.v), FieldInEffect(key)) # Null)
               => HasKey(response.extractedFields, key)

C20_Witness ==
    /\ IsFormat
    /\ response.status = 200
    /\ Has(requestFilters, "enabled")
    /\ InSeq("severity", requestFilters.enabled)
    /\ LeftOut(FieldInEffect("severity"))
    /\ includes(request.body.rawText.v, "Severity : High")
    /\ Keys(response.extractedFields) = <<"category">>

====
